---------------------------- MODULE Spec2Model ----------------------------
(***************************************************************************)
(* A model of mini-ssg (swiftcoder/mini-ssg): the frontmatter extractor,   *)
(* the shortcode parser, the content splicer, the summary cut, and the     *)
(* run of main() over a content tree (page construction, taxonomy          *)
(* building, render pass).                                                 *)
(*                                                                         *)
(* Strings are sequences of one-character strings; byte offsets are        *)
(* 0-based as in the source, and Rust's Option<usize> None is NoIndex.     *)
(***************************************************************************)
EXTENDS Integers, Sequences, FiniteSets, TLC

VARIABLES
    \* the run of main()
    pc,         \* where main() is: "walk", "taxonomies", "render", "done",
                \* "failed" (an Err returned from main), "panicked"
    config,     \* context.config.taxonomies: the configured taxonomy names
    walked,     \* the content-relative paths WalkDir has yielded so far
    pages,      \* site.pages: HashMap<String, Page>, page name |-> Page
    copied,     \* the static assets copied to the output directory
    written,    \* the output paths write_to_output has written
    taxIdx,     \* process_taxonomies: the index in config of the current taxonomy
    collected,  \* process_taxonomies: whether `terms` of the current taxonomy is built
    terms,      \* process_taxonomies: the terms of the HashSet not yet visited
    sorted,     \* render_pages_for_site: `pages`, the date-sorted Vec (page names)
    pending,    \* render_pages_for_site: the pages the for loop has not visited yet
    lastRender, \* render_page: the page and the `pages` list of the latest call
    failure,    \* where the run failed: the phase and the file or page
    readers,    \* the number of live read guards on the RwLock<Site>
    writer,     \* whether a write guard on the RwLock<Site> is live
    \* history of the run, read by the properties only
    taxRead,      \* process_taxonomies has read the index
    renderRead,   \* render_pages_for_site has read the index
    sectionRead,  \* GetSection::call has read the index
    contentPages, \* the index as process_templated_files returned it
    \* a pure function on one input
    text,       \* the input text handed to the function under study
    ntok,       \* how many tokens were appended to build text
    res,        \* the outcome of the function on text ("none" before the call)
    registered  \* the template names registered with the engine for the call

runVars == <<pc, config, walked, pages, copied, written, taxIdx, collected, terms,
             sorted, pending, lastRender, failure, readers, writer,
             taxRead, renderRead, sectionRead, contentPages>>

pureVars == <<text, ntok, res, registered>>

vars == <<runVars, pureVars>>

-----------------------------------------------------------------------------
(* str: find, slicing, trim                                                *)

NoIndex == 0 - 1

Min(a, b) == IF a < b THEN a ELSE b

\* s[a..b] with 0-based byte offsets, b exclusive
Slice(s, a, b) == SubSeq(s, a + 1, b)

\* s[a..]
SliceFrom(s, a) == SubSeq(s, a + 1, Len(s))

StartsWithAt(s, pat, i) ==
    /\ i + Len(pat) <= Len(s)
    /\ \A k \in 1..Len(pat) : s[i + k] = pat[k]

\* str::find: the offset of the first occurrence of pat in s, or NoIndex
Find(s, pat) ==
    LET hits == {i \in 0..(Len(s) - Len(pat)) : StartsWithAt(s, pat, i)}
    IN  IF hits = {} THEN NoIndex
        ELSE CHOOSE i \in hits : \A j \in hits : i <= j

\* str::rfind: the offset of the last occurrence of pat in s, or NoIndex
RFind(s, pat) ==
    LET hits == {i \in 0..(Len(s) - Len(pat)) : StartsWithAt(s, pat, i)}
    IN  IF hits = {} THEN NoIndex
        ELSE CHOOSE i \in hits : \A j \in hits : i >= j

Whitespace == {" ", "\n", "\t"}

\* str::trim_start
TrimStart(s) ==
    LET keep == {i \in 1..Len(s) : s[i] \notin Whitespace}
    IN  IF keep = {} THEN <<>>
        ELSE SubSeq(s, CHOOSE i \in keep : \A j \in keep : i <= j, Len(s))

\* str::trim_end
TrimEnd(s) ==
    LET keep == {i \in 1..Len(s) : s[i] \notin Whitespace}
    IN  IF keep = {} THEN <<>>
        ELSE SubSeq(s, 1, CHOOSE i \in keep : \A j \in keep : i >= j)

\* str::trim
Trim(s) == TrimEnd(TrimStart(s))

Chars(s) == {s[i] : i \in 1..Len(s)}

RECURSIVE Concat(_)
\* the concatenation of a sequence of strings
Concat(ss) == IF ss = <<>> THEN <<>> ELSE Head(ss) \o Concat(Tail(ss))

\* Vec::reverse
Reverse(s) == [i \in 1..Len(s) |-> s[Len(s) + 1 - i]]

-----------------------------------------------------------------------------
(* frontmatter.rs                                                          *)

marker == <<"+", "+", "+">>

\* An outcome of a fallible call: kind is "ok" (a value was returned), "err" (an
\* anyhow error value was returned to the caller) or "panic" (the thread
\* unwound: expect()/unwrap() on None).
Outcome(kind, msg, front, body) ==
    [kind |-> kind, msg |-> msg, front |-> front, body |-> body]

\* toml::from_str::<D> on the trimmed block: an external parser.  A block holding
\* the character "!" stands for one that does not deserialize.
TomlParses(block) == "!" \notin Chars(block)

\* frontmatter::parse, data.find(marker).expect(..) included
FrontmatterParse(data) ==
    LET start == Find(data, marker)
    IN  IF start = NoIndex
        THEN Outcome("panic", "missing frontmatter", <<>>, <<>>)
        ELSE IF start # 0
        THEN Outcome("err", "frontmatter not at beginning of file", <<>>, <<>>)
        ELSE LET start2 == start + 3
                 end    == Find(SliceFrom(data, start2), marker)
             IN  IF end = NoIndex
                 THEN Outcome("panic", "unterminated frontmatter", <<>>, <<>>)
                 ELSE LET frontmatter == Slice(data, start2, start2 + end)
                          end2        == start2 + end + 3
                          extra       == SliceFrom(data, end2)
                      IN  IF TomlParses(Trim(frontmatter))
                          THEN Outcome("ok", "", Trim(frontmatter), TrimStart(extra))
                          ELSE Outcome("err", "toml", <<>>, <<>>)

-----------------------------------------------------------------------------
(* markdown.rs: parse_shortcode (combine parsers)                          *)

\* char::is_alphanumeric, on the characters the model's texts are built from
Alphanumeric ==
    { "a", "b", "c", "d", "e", "f", "g", "h", "i", "j", "k", "l", "m",
      "n", "o", "p", "q", "r", "s", "t", "u", "v", "w", "x", "y", "z",
      "A", "B", "C", "D", "E", "F", "G", "H", "I", "J", "K", "L", "M",
      "N", "O", "P", "Q", "R", "S", "T", "U", "V", "W", "X", "Y", "Z",
      "0", "1", "2", "3", "4", "5", "6", "7", "8", "9" }

\* the predicate of ident(): |c| c.is_alphanumeric() || c == '_'
IsIdentChar(c) == c \in Alphanumeric \/ c = "_"

\* the predicate of literal_str: |c| c != '\"'
IsStrChar(c) == c # "\""

\* spaces(): skips zero or more whitespace characters from offset p
SkipSpaces(s, p) ==
    LET stop == {q \in p..Len(s) : q = Len(s) \/ s[q + 1] \notin Whitespace}
    IN  CHOOSE q \in stop : \A r \in stop : q <= r

\* take_while(pred) for ident(): the offset after zero or more identifier
\* characters from p (take_while, not take_while1: it succeeds on none)
TakeIdent(s, p) ==
    LET stop == {q \in p..Len(s) : q = Len(s) \/ ~IsIdentChar(s[q + 1])}
    IN  CHOOSE q \in stop : \A r \in stop : q <= r

\* take_while(|c| c != '\"')
TakeStr(s, p) ==
    LET stop == {q \in p..Len(s) : q = Len(s) \/ ~IsStrChar(s[q + 1])}
    IN  CHOOSE q \in stop : \A r \in stop : q <= r

\* lit(l) = Str(l).skip(spaces()): the offset after l and the whitespace
\* following it, or NoIndex when l is not at p
lit(s, p, l) ==
    IF StartsWithAt(s, l, p) THEN SkipSpaces(s, p + Len(l)) ELSE NoIndex

\* ident() = take_while(..).skip(spaces())
ident(s, p) ==
    LET q == TakeIdent(s, p)
    IN  [name |-> Slice(s, p, q), pos |-> SkipSpaces(s, q)]

NoValue == [ok |-> FALSE, value |-> <<>>, pos |-> 0]

\* literal_str after its opening quote (open: the offset after it and the
\* whitespace lit skips, or NoIndex): the characters up to the next quote, the
\* closing quote, whitespace
StrAfterOpen(s, open, q) ==
    IF open = NoIndex \/ lit(s, q, <<"\"">>) = NoIndex THEN NoValue
    ELSE [ok |-> TRUE, value |-> Slice(s, open, q),
          pos |-> SkipSpaces(s, lit(s, q, <<"\"">>))]

\* literal_str = between(lit("\""), lit("\""), take_while(..)).skip(spaces())
literal_str(s, p) ==
    StrAfterOpen(s, lit(s, p, <<"\"">>),
                 IF lit(s, p, <<"\"">>) = NoIndex THEN p ELSE TakeStr(s, lit(s, p, <<"\"">>)))

NoArg(consumed) ==
    [ok |-> FALSE, consumed |-> consumed, name |-> <<>>, value |-> <<>>, pos |-> 0]

\* arg after ident() and lit("=") (eq: the offset after "=", or NoIndex): an
\* error that has consumed input unless the identifier and the whitespace after
\* it were empty and "=" is missing
ArgAfterEq(p, id, eq, v) ==
    IF eq = NoIndex THEN NoArg(id.pos > p)
    ELSE IF v.ok
    THEN [ok |-> TRUE, consumed |-> TRUE, name |-> id.name, value |-> v.value,
          pos |-> v.pos]
    ELSE NoArg(TRUE)

ArgAfterIdent(s, p, id, eq) ==
    ArgAfterEq(p, id, eq, IF eq = NoIndex THEN NoValue ELSE literal_str(s, eq))

\* arg = (ident(), lit("="), literal_str).map(Argument {name, value})
arg(s, p) == ArgAfterIdent(s, p, ident(s, p), lit(s, ident(s, p).pos, <<"=">>))

NoArgs == [ok |-> FALSE, args |-> <<>>, pos |-> 0]

RECURSIVE arg_list_rest(_, _, _)

\* sep_by's loop after a separator (a: the argument parsed after it); a
\* separator that is followed by no argument is an error (it was consumed)
ArgsAfterSep(s, acc, a) ==
    IF a.ok
    THEN arg_list_rest(s, a.pos, Append(acc, [name |-> a.name, value |-> a.value]))
    ELSE NoArgs

\* sep_by's loop after an argument: (lit(","), arg)*
arg_list_rest(s, p, acc) ==
    IF lit(s, p, <<",">>) = NoIndex THEN [ok |-> TRUE, args |-> acc, pos |-> p]
    ELSE ArgsAfterSep(s, acc, arg(s, lit(s, p, <<",">>)))

\* sep_by after its first arg (a): no argument when it failed without
\* consuming input, an error when it failed after consuming
ArgsAfterFirst(s, p, a) ==
    IF a.ok
    THEN arg_list_rest(s, a.pos, <<[name |-> a.name, value |-> a.value]>>)
    ELSE IF a.consumed THEN NoArgs
    ELSE [ok |-> TRUE, args |-> <<>>, pos |-> p]

\* arg_list = sep_by(arg, lit(","))
arg_list(s, p) == ArgsAfterFirst(s, p, arg(s, p))

ShortCodeErr == [kind |-> "err", name |-> <<>>, arguments |-> <<>>]

\* the shortcode parser after the argument list (al): lit(")"), lit("}}");
\* easy_parse does not require the input to be exhausted
ParseClose(input, id, al, rp) ==
    IF ~al.ok \/ rp = NoIndex THEN ShortCodeErr
    ELSE IF lit(input, rp, <<"}", "}">>) = NoIndex THEN ShortCodeErr
    ELSE [kind |-> "ok", name |-> id.name, arguments |-> al.args]

\* the shortcode parser after lit("("): arg_list
ParseArgs(input, id, lp, al) ==
    IF lp = NoIndex THEN ShortCodeErr
    ELSE ParseClose(input, id, al, IF al.ok THEN lit(input, al.pos, <<")">>) ELSE NoIndex)

\* the shortcode parser after ident(): lit("(")
ParseName(input, id, lp) ==
    ParseArgs(input, id, lp, IF lp = NoIndex THEN NoArgs ELSE arg_list(input, lp))

\* the shortcode parser after lit("{{"): ident()
ParseOpen(input, open, id) ==
    IF open = NoIndex THEN ShortCodeErr
    ELSE ParseName(input, id, lit(input, id.pos, <<"(">>))

\* parse_shortcode: between(lit("{{"), lit("}}"), (ident(), args)) run by
\* easy_parse
parse_shortcode(input) ==
    ParseOpen(input, lit(input, 0, <<"{", "{">>),
              ident(input, IF lit(input, 0, <<"{", "{">>) = NoIndex THEN 0
                           ELSE lit(input, 0, <<"{", "{">>)))

-----------------------------------------------------------------------------
(* markdown.rs: render_shortcode, render_markdown, render_content          *)

\* A rendered text or a failure: kind is "ok", "err" or "panic"
Rendered(kind, val) == [kind |-> kind, val |-> val]

ShortcodesPrefix == <<"s", "h", "o", "r", "t", "c", "o", "d", "e", "s", "/">>

DotHtml == <<".", "h", "t", "m", "l">>

\* tera.get_template_names(): the templates loaded from the templates directory
\* (setup_template_engine): the shortcode templates and a page template.
TemplateNames ==
    { ShortcodesPrefix \o <<"a">> \o DotHtml,
      ShortcodesPrefix \o <<"b">> \o DotHtml,
      ShortcodesPrefix \o <<"e">> \o DotHtml,
      ShortcodesPrefix \o <<"s">> \o DotHtml,
      <<"p", "a", "g", "e">> \o DotHtml }

RECURSIVE ArgValues(_)
ArgValues(arguments) ==
    IF arguments = <<>> THEN <<>>
    ELSE Head(arguments).value \o ArgValues(Tail(arguments))

\* tera.render(template, ctx) for a shortcode template: the template engine is
\* external.  a.html renders a fixed one-character text, b.html renders its
\* argument values four times between tags, s.html renders a fixed text (it
\* calls get_section: the caller decides whether that function is registered),
\* e.html fails to render.
TeraRenderShortcode(template, shortcode) ==
    LET v == ArgValues(shortcode.arguments)
    IN  IF template = ShortcodesPrefix \o <<"a">> \o DotHtml
        THEN Rendered("ok", <<"A">>)
        ELSE IF template = ShortcodesPrefix \o <<"b">> \o DotHtml
        THEN Rendered("ok", <<"<", "b", ">">> \o v \o v \o v \o v \o <<"<", "/", "b", ">">>)
        ELSE IF template = ShortcodesPrefix \o <<"s">> \o DotHtml
        THEN Rendered("ok", <<"S">>)
        ELSE Rendered("err", <<>>)

\* the short name of a template under "shortcodes/": the name after the prefix,
\* cut at its last '.'
ShortName(template) ==
    LET name == SliceFrom(template, Len(ShortcodesPrefix))
        i    == RFind(name, <<".">>)
    IN  IF i = NoIndex THEN name ELSE Slice(name, 0, i)

\* the templates the loop of render_shortcode matches for a shortcode name
MatchingTemplates(templates, name) ==
    {t \in templates : StartsWithAt(t, ShortcodesPrefix, 0) /\ ShortName(t) = name}

\* render_shortcode after parse_shortcode: the loop over the template names;
\* when several templates match, the one HashMap order yields first is rendered
RenderParsed(shortcode, found) ==
    IF shortcode.kind # "ok" \/ found = {} THEN Rendered("err", <<>>)
    ELSE TeraRenderShortcode(CHOOSE t \in found : TRUE, shortcode)

\* render_shortcode over a set of registered template names
RenderShortcodeWith(input, templates) ==
    RenderParsed(parse_shortcode(input),
                 MatchingTemplates(templates, parse_shortcode(input).name))

render_shortcode(input) == RenderShortcodeWith(input, TemplateNames)

\* one call of render_shortcode, told apart by how it ends: the `?` on
\* parse_shortcode ("syntax"), the Err after the loop ("unknown"), or the
\* return inside the loop with tera.render on the matching template the
\* iteration over the template names reached first ("ok" or "render": the
\* engine's error); engine tells whether tera.render was called
ShortcodeCall(shortcode, found, first) ==
    IF shortcode.kind # "ok"
    THEN [kind |-> "syntax", engine |-> FALSE, template |-> <<>>, name |-> <<>>]
    ELSE IF found = {}
    THEN [kind |-> "unknown", engine |-> FALSE, template |-> <<>>,
          name |-> shortcode.name]
    ELSE [kind |-> IF TeraRenderShortcode(first, shortcode).kind = "ok"
                   THEN "ok" ELSE "render",
          engine |-> TRUE, template |-> first, name |-> shortcode.name]

\* render_markdown: pulldown_cmark is external.  A blank span renders to
\* nothing, any other to its trimmed text in a paragraph.
render_markdown(input) ==
    IF Trim(input) = <<>> THEN Rendered("ok", <<>>)
    ELSE Rendered("ok", <<"<", "p", ">">> \o Trim(input) \o <<"<", "/", "p", ">", "\n">>)

\* ContentRange::Markdown(start..end) / ContentRange::ShortCode(start..end)
ContentRange(tag, start, end) == [tag |-> tag, start |-> start, end |-> end]

NoRanges == [ok |-> FALSE, ranges |-> <<>>]

RECURSIVE ScanRanges(_, _, _)

\* the scan at a "{{" (open: its offset; end: the offset of the next "}}"
\* counted from open, or NoIndex): the shortcode range is recorded and the
\* scan goes on after it; "unterminated shortcode" when there is no "}}"
ScanShortcode(input, open, ranges, end) ==
    IF end = NoIndex THEN NoRanges
    ELSE ScanRanges(input, open + end + 2,
                    Append(ranges, ContentRange("ShortCode", open, open + end + 2)))

\* the scan from last (start: the offset of the next "{{" counted from last,
\* or NoIndex): the markdown before the marker is recorded when not empty;
\* with no marker left, the rest is the trailing markdown range
ScanFrom(input, last, ranges, start) ==
    IF start = NoIndex
    THEN [ok |-> TRUE,
          ranges |-> IF last < Len(input)
                     THEN Append(ranges, ContentRange("Markdown", last, Len(input)))
                     ELSE ranges]
    ELSE ScanShortcode(input, last + start,
                       IF start > 0
                       THEN Append(ranges, ContentRange("Markdown", last, last + start))
                       ELSE ranges,
                       Find(SliceFrom(input, last + start), <<"}", "}">>))

\* the while-let loop of render_content and the trailing markdown range; ok is
\* FALSE on "unterminated shortcode"
ScanRanges(input, last, ranges) ==
    ScanFrom(input, last, ranges, Find(SliceFrom(input, last), <<"{", "{">>))

\* render_markdown or render_shortcode, by the tag of the range
RenderRange(tag, span) ==
    IF tag = "Markdown" THEN render_markdown(span) ELSE render_shortcode(span)

\* ProcessingOrder without the ranges.reverse(): the ranges rewritten front to back
ForwardProcessingOrder(ranges) == ranges

\* the order in which render_content visits the recorded ranges: ranges.reverse()
ProcessingOrder(ranges) == Reverse(ranges)

RECURSIVE SpliceRanges(_, _)

\* String::replace_range(r, out) when the render of the range succeeded, and
\* the rest of the for loop; the error of the render otherwise
ReplaceRange(input, r, rest, out) ==
    IF out.kind # "ok" THEN Rendered(out.kind, <<>>)
    ELSE SpliceRanges(Slice(input, 0, r.start) \o out.val \o SliceFrom(input, r.end), rest)

\* one turn of the for loop: the range r of the current string is rendered;
\* slicing a range that is not inside the string panics
SpliceRange(input, r, rest) ==
    IF r.start > r.end \/ r.end > Len(input) THEN Rendered("panic", <<>>)
    ELSE ReplaceRange(input, r, rest, RenderRange(r.tag, Slice(input, r.start, r.end)))

\* the for loop of render_content over the ranges in processing order
SpliceRanges(input, ranges) ==
    IF ranges = <<>> THEN Rendered("ok", input)
    ELSE SpliceRange(input, Head(ranges), Tail(ranges))

\* render_content after the scan
SpliceScanned(input, scan) ==
    IF ~scan.ok THEN Rendered("err", <<>>)
    ELSE SpliceRanges(input, ProcessingOrder(scan.ranges))

\* render_content
render_content(input) == SpliceScanned(input, ScanRanges(input, 0, <<>>))

-----------------------------------------------------------------------------
(* main.rs, process_templated_files: the summary cut                       *)

CommentOpen == <<"<", "!", "-", "-">>

CommentClose == <<"-", "-", ">">>

\* u8::to_ascii_lowercase, on the letters the model's texts are built from
ToAsciiLower(c) == IF c = "M" THEN "m" ELSE c

\* str::eq_ignore_ascii_case
EqIgnoreAsciiCase(s, t) ==
    /\ Len(s) = Len(t)
    /\ \A i \in 1..Len(s) : ToAsciiLower(s[i]) = ToAsciiLower(t[i])

\* the offset of the cut marker as lines 263-268 find it: the first "<!--" of
\* the body, when a "-->" follows it and the text between them, trimmed, is
\* "more" in any case; NoIndex otherwise
CutOffset(body) ==
    LET start == Find(body, CommentOpen)
    IN  IF start = NoIndex THEN NoIndex
        ELSE LET end == Find(SliceFrom(body, start + 4), CommentClose)
             IN  IF end = NoIndex THEN NoIndex
                 ELSE IF EqIgnoreAsciiCase(Trim(Slice(body, start + 4, start + 4 + end)),
                                           <<"m", "o", "r", "e">>)
                 THEN start
                 ELSE NoIndex

NoBody(kind) ==
    [kind |-> kind, hasSummary |-> FALSE, summary |-> <<>>, content |-> <<>>]

\* lines 269-279 after both renders: the error of the first that failed, else
\* summary (Some when the cut marker was found) and content
SummaryAndContent(cut, summary, content) ==
    IF summary.kind # "ok" THEN NoBody(summary.kind)
    ELSE IF content.kind # "ok" THEN NoBody(content.kind)
    ELSE [kind |-> "ok", hasSummary |-> cut # NoIndex, summary |-> summary.val,
          content |-> content.val]

\* lines 261-279 with the cut marker located
RenderCut(body, cut) ==
    SummaryAndContent(cut,
                      IF cut = NoIndex THEN Rendered("ok", <<>>)
                      ELSE render_content(Slice(body, 0, cut)),
                      render_content(body))

\* lines 261-279: summary (an Option) and content of a page, or the error of
\* the first render_content that fails
RenderBody(body) == RenderCut(body, CutOffset(body))

-----------------------------------------------------------------------------
(* std::path, on relative paths whose components are separated by one "/"  *)
(* and that do not end in "/"                                              *)

\* Option<T>
Some(v) == [some |-> TRUE, val |-> v]

None == [some |-> FALSE, val |-> <<>>]

\* the offset at which the last component of the path starts
LastComponentStart(path) ==
    LET i == RFind(path, <<"/">>) IN IF i = NoIndex THEN 0 ELSE i + 1

\* Path::file_name: the last component, None for the empty path and for one
\* that ends in ".."
FileName(path) ==
    LET name == SliceFrom(path, LastComponentStart(path))
    IN  IF name = <<>> \/ name = <<".", ".">> THEN None ELSE Some(name)

\* the offset in a file name of the '.' that starts its extension, NoIndex when
\* it has none (no '.', or only a leading one)
ExtensionDot(name) ==
    LET i == RFind(name, <<".">>) IN IF i = NoIndex \/ i = 0 THEN NoIndex ELSE i

\* Path::extension
Extension(path) ==
    LET f == FileName(path)
    IN  IF ~f.some THEN None
        ELSE IF ExtensionDot(f.val) = NoIndex THEN None
        ELSE Some(SliceFrom(f.val, ExtensionDot(f.val) + 1))

\* Path::file_stem of a path that has a file name
FileStem(name) ==
    IF ExtensionDot(name) = NoIndex THEN name ELSE Slice(name, 0, ExtensionDot(name))

\* Path::with_extension: the path unchanged when it has no file name; else the
\* file name cut to its stem, followed by "." and the extension unless the
\* extension is empty
WithExtension(path, extension) ==
    LET f == FileName(path)
    IN  IF ~f.some THEN path
        ELSE Slice(path, 0, LastComponentStart(path)) \o FileStem(f.val)
                 \o (IF extension = <<>> THEN <<>> ELSE <<".">> \o extension)

\* PathBuf::pop: the path cut to its parent
Pop(path) ==
    LET i == RFind(path, <<"/">>) IN IF i = NoIndex THEN <<>> ELSE Slice(path, 0, i)

\* Path::join with a relative path
Join(path, other) == IF path = <<>> THEN other ELSE path \o <<"/">> \o other

\* slugify: input.replace(' ', "-")
slugify(input) == [i \in 1..Len(input) |-> IF input[i] = " " THEN "-" ELSE input[i]]

Html == <<"h", "t", "m", "l">>

Index == <<"i", "n", "d", "e", "x">>

\* what output_path yields when file_name() is None at its unwrap()
OutputPathPanic == <<"\n">>

\* output_path after with_extension("") (stripped) and the extension of the
\* template name
OutputPathOf(stripped, extension) ==
    IF ~extension.some THEN slugify(stripped)
    ELSE IF extension.val = Html
    THEN IF ~FileName(stripped).some THEN OutputPathPanic
         ELSE slugify(Join(IF FileName(stripped).val = Index
                               THEN Pop(stripped) ELSE stripped,
                           Index \o <<".">> \o Html))
    ELSE slugify(WithExtension(stripped, extension.val))

\* output_path(relative_path, Some(template_name))
output_path(relative_path, template_name) ==
    OutputPathOf(WithExtension(relative_path, <<>>), Extension(template_name))

IndexHtml == Index \o <<".">> \o Html

\* Url::join on a base URL that has a path and a relative reference made of
\* path segments: the reference replaces what follows the last "/" of the
\* base; the empty reference yields the base
UrlJoin(base, reference) ==
    IF reference = <<>> THEN base
    ELSE Slice(base, 0, RFind(base, <<"/">>) + 1) \o reference

\* Config::make_permalink: path.strip_suffix("index.html").unwrap_or(path),
\* then base_url.join
make_permalink(base_url, path) ==
    UrlJoin(base_url,
            IF Len(path) >= Len(IndexHtml)
               /\ StartsWithAt(path, IndexHtml, Len(path) - Len(IndexHtml))
            THEN Slice(path, 0, Len(path) - Len(IndexHtml))
            ELSE path)

-----------------------------------------------------------------------------
(* dates: toml::value::Date and its Display, String ordering               *)

Digit(n) == <<"0", "1", "2", "3", "4", "5", "6", "7", "8", "9">>[n + 1]

\* format!("{:02}", n)
Pad2(n) == <<Digit((n \div 10) % 10), Digit(n % 10)>>

\* format!("{:04}", n)
Pad4(n) == <<Digit((n \div 1000) % 10), Digit((n \div 100) % 10)>> \o Pad2(n % 100)

\* Date::to_string: "{:04}-{:02}-{:02}"
DateToString(d) ==
    Pad4(d.year) \o <<"-">> \o Pad2(d.month) \o <<"-">> \o Pad2(d.day)

\* the byte of a character of a date string
Byte(c) ==
    IF c = "-" THEN 45
    ELSE 48 + (CHOOSE n \in 0..9 : Digit(n) = c)

\* String's Ord: byte-wise lexicographic, a proper prefix first
StrLess(s, t) ==
    \E i \in 1..(Min(Len(s), Len(t)) + 1) :
        /\ \A k \in 1..(i - 1) : s[k] = t[k]
        /\ IF i > Len(s) THEN i <= Len(t)
           ELSE i <= Len(t) /\ Byte(s[i]) < Byte(t[i])

-----------------------------------------------------------------------------
(* The content tree, the configuration and the templates of a run          *)

Tags == <<"t", "a", "g", "s">>

Cats == <<"c", "a", "t", "s">>

Misc == <<"m", "i", "s", "c">>

SingleHtml == <<"/", "s", "i", "n", "g", "l", "e">> \o DotHtml

PageHtml == <<"p", "a", "g", "e">> \o DotHtml

ListHtml == <<"l", "i", "s", "t">> \o DotHtml

BadHtml == <<"b", "a", "d">> \o DotHtml

\* config.taxonomies of the runs: one taxonomy, or two
Configs == { <<Tags>>, <<Tags, Cats>> }

\* the content-relative paths WalkDir may yield: two pages (the second where
\* the term page of tags/x goes), a partial and an image
FileNames ==
    { <<"a", ".", "m", "d">>,
      <<"t", "a", "g", "s", "/", "x", ".", "m", "d">>,
      <<"_", "p", ".", "m", "d">>,
      <<"i", ".", "p", "n", "g">> }

\* static_file_extensions
StaticFileExtensions ==
    { <<"p", "n", "g">>, <<"w", "e", "b", "p">>, <<"j", "p", "g">>,
      <<"j", "p", "e", "g">>, <<"g", "i", "f">> }

EmptyBlock == marker \o <<"\n">> \o marker \o <<"\n">>

\* the file contents of the runs: a page with a cut marker, then texts with no
\* frontmatter, an unterminated block, a block not at the start, a block that
\* does not deserialize, an unterminated shortcode, a shortcode with no
\* template, and a shortcode whose template calls get_section
FileTexts ==
    { EmptyBlock \o <<"x", " ">> \o CommentOpen \o <<"m", "o", "r", "e">> \o CommentClose
          \o <<" ", "{", "{", "a", "(", ")", "}", "}">>,
      <<"x">>,
      marker \o <<"x">>,
      <<"x">> \o EmptyBlock,
      marker \o <<"!">> \o marker,
      EmptyBlock \o <<"{", "{">>,
      EmptyBlock \o <<"{", "{", "c", "(", ")", "}", "}">>,
      EmptyBlock \o <<"{", "{", "s", "(", ")", "}", "}">> }

Date(y, m, d) == [year |-> y, month |-> m, day |-> d]

\* the FrontMatter values toml::from_str may return for a block: template,
\* date and taxonomies (title and description do not reach the index logic)
FrontMatters ==
    [ template   : {None, Some(ListHtml), Some(BadHtml)},
      date       : {None, Some(Date(2020, 9, 5)), Some(Date(2020, 10, 1))},
      taxonomies : { None,
                     Some(Tags :> <<<<"x">>>>),
                     Some(Tags :> << <<"a", " ", "b">>, <<"a", "-", "b">> >>),
                     Some((Cats :> << <<"y">>, <<"y">> >>) @@ (Misc :> <<<<"x">>>>)) } ]

\* tera.render(&page.template_name, ctx) for a page: the template engine is
\* external.  page.html and tags/single.html render; list.html and
\* cats/single.html render and call get_section; bad.html fails to render,
\* and so does a name that is no template.
PageTemplates == {PageHtml, ListHtml, BadHtml, Tags \o SingleHtml, Cats \o SingleHtml}

TemplateRenders(template_name) ==
    template_name \in PageTemplates /\ template_name # BadHtml

TemplateCallsGetSection(template_name) ==
    template_name \in {ListHtml, Cats \o SingleHtml}

\* the shortcode whose template (shortcodes/s.html) calls get_section
SectionShortcode == <<"s">>

\* whether one of the scanned ranges of the body is a SectionShortcode
SectionShortcodeAmong(body, scan) ==
    /\ scan.ok
    /\ \E i \in 1..Len(scan.ranges) :
          /\ scan.ranges[i].tag = "ShortCode"
          /\ parse_shortcode(Slice(body, scan.ranges[i].start,
                                   scan.ranges[i].end)).kind = "ok"
          /\ parse_shortcode(Slice(body, scan.ranges[i].start,
                                   scan.ranges[i].end)).name = SectionShortcode

\* whether rendering the body renders the template of SectionShortcode
UsesSectionShortcode(body) == SectionShortcodeAmong(body, ScanRanges(body, 0, <<>>))

\* GetSectionRegistered with the registration moved to the construction of Tera
GetSectionRegisteredAtStart(phase) == TRUE

\* tera.register_function("get_section", ..) is reached only after
\* process_templated_files has returned (main.rs:433-439)
GetSectionRegistered(phase) == phase # "walk"

-----------------------------------------------------------------------------
(* main.rs: process_templated_files                                        *)

Range(f) == {f[x] : x \in DOMAIN f}

\* Page: the fields the index logic reads (name is the key of site.pages and
\* output_path is that same string)
Page(template_name, taxonomy, date, content, summary, taxonomies) ==
    [template_name |-> template_name, taxonomy |-> taxonomy, date |-> date,
     content |-> content, summary |-> summary, taxonomies |-> taxonomies]

\* HashMap::insert
Insert(map, key, value) ==
    [k \in DOMAIN map \cup {key} |-> IF k = key THEN value ELSE map[k]]

NoFailure == [phase |-> "none", at |-> <<>>]

Step(kind, name, page, reads) ==
    [kind |-> kind, name |-> name, page |-> page, reads |-> reads]

NoPage == Page(<<>>, None, None, <<>>, None, <<>>)

TemplateNameOf(frontmatter) ==
    IF frontmatter.template.some THEN frontmatter.template.val ELSE PageHtml

\* lines 235-298 for a file that is compiled (name: its output_path)
CompilePage(path, name, frontmatter, calls, rendered, phase) ==
    IF name = OutputPathPanic THEN Step("panic", path, NoPage, FALSE)
    ELSE IF calls /\ ~GetSectionRegistered(phase)
    THEN Step("err", path, NoPage, FALSE)
    ELSE IF rendered.kind # "ok"
    THEN Step(rendered.kind, path, NoPage, calls)
    ELSE Step("page", name,
              Page(TemplateNameOf(frontmatter), None,
                   IF frontmatter.date.some
                   THEN Some(DateToString(frontmatter.date.val)) ELSE None,
                   rendered.content,
                   IF rendered.hasSummary THEN Some(rendered.summary) ELSE None,
                   IF frontmatter.taxonomies.some
                   THEN frontmatter.taxonomies.val ELSE <<>>),
              calls)

\* the body of the loop of process_templated_files for one file (parsed: the
\* outcome of frontmatter::parse on its text; frontmatter: the FrontMatter the
\* toml deserializes to; calls: whether rendering the body calls get_section;
\* rendered: the outcome of the two render_content calls)
CompileFile(path, parsed, frontmatter, calls, rendered, phase) ==
    IF Extension(path).some /\ Extension(path).val \in StaticFileExtensions
    THEN Step("copy", path, NoPage, FALSE)
    ELSE IF parsed.kind # "ok" THEN Step(parsed.kind, path, NoPage, FALSE)
    ELSE IF FileName(path).some /\ Head(FileName(path).val) = "_"
    THEN Step("skip", path, NoPage, FALSE)
    ELSE CompilePage(path, output_path(path, TemplateNameOf(frontmatter)),
                     frontmatter, calls, rendered, phase)

-----------------------------------------------------------------------------
(* main.rs: process_taxonomies                                             *)

\* RwLock::try_read / try_write succeed when no conflicting guard is live
TryRead(r, w) == ~w

TryWrite(r, w) == r = 0 /\ ~w

\* GuardAfterBlock with the read guard bound outside the block, alive through
\* the for loop over the terms
GuardKeptInLoop(r) == r

\* the live read guards once the block of lines 363-371 ends: the guard `site`
\* is a local of the block and is dropped there (r counts it)
GuardAfterBlock(r) == r - 1

\* the HashSet `terms` of a taxonomy: every term some page lists under it
TermsOf(index, taxonomy) ==
    UNION { Range(index[k].taxonomies[taxonomy]) :
              k \in {k \in DOMAIN index : taxonomy \in DOMAIN index[k].taxonomies} }

\* the name under which the page of a term is inserted
TermPageName(taxonomy, term) ==
    output_path(Join(taxonomy, term), taxonomy \o SingleHtml)

\* the Page of a term (lines 381-394)
TermPage(taxonomy, term) ==
    Page(taxonomy \o SingleHtml, Some(<<taxonomy, term>>), None, <<>>, None, <<>>)

-----------------------------------------------------------------------------
(* main.rs: render_pages_for_site                                          *)

\* the orders in which HashMap::values may yield a set of pages
Orders(S) ==
    {o \in [1..Cardinality(S) -> S] : \A i, j \in 1..Cardinality(S) : o[i] = o[j] => i = j}

RECURSIVE SortByDate(_, _)
\* pages.sort_by_key(|p| p.date.clone().unwrap()): a stable sort by the date
\* String (names: the page names in iteration order; index: site.pages)
SortByDate(names, index) ==
    IF names = <<>> THEN <<>>
    ELSE LET front == SortByDate(SubSeq(names, 1, Len(names) - 1), index)
             x     == names[Len(names)]
             n     == Cardinality({i \in 1..Len(front) :
                          ~StrLess(index[x].date.val, index[front[i]].date.val)})
         IN  SubSeq(front, 1, n) \o <<x>> \o SubSeq(front, n + 1, Len(front))

\* SortedPages without the pages.reverse()
SortedPagesAscending(names, index) == SortByDate(names, index)

\* lines 326-333: the dated pages, sorted by date and reversed
SortedPages(names, index) == Reverse(SortByDate(names, index))

\* lines 336-349: the list a page's template is given
PageList(page, sortedPages, index) ==
    IF page.taxonomy.some
    THEN LET taxonomy == page.taxonomy.val[1]
             term     == page.taxonomy.val[2]
             Has(n)   == /\ taxonomy \in DOMAIN index[n].taxonomies
                         /\ term \in Range(index[n].taxonomies[taxonomy])
         IN  SelectSeq(sortedPages, Has)
    ELSE sortedPages

\* write_to_output follows render_page's `?` even when the render failed
WrittenAfterAnyRender(out, name, ok) == out \cup {name}

\* lines 346-351: the output written after render_page returned (ok: it
\* returned Ok; an Err leaves the function at the `?`)
WrittenAfter(out, name, ok) == IF ok THEN out \cup {name} ELSE out

-----------------------------------------------------------------------------
(* main.rs: main() as a state machine                                      *)

MaxFiles == 2

\* no pure function applied: the input empty, no outcome
NoResult == Outcome("none", "", <<>>, <<>>)

PureInit ==
    /\ text = <<>>
    /\ ntok = 0
    /\ res = NoResult
    /\ registered = {}

RunInit ==
    /\ pc = "walk"
    /\ config \in Configs
    /\ walked = {}
    /\ pages = <<>>
    /\ copied = {}
    /\ written = {}
    /\ taxIdx = 1
    /\ collected = FALSE
    /\ terms = {}
    /\ sorted = <<>>
    /\ pending = {}
    /\ lastRender = [page |-> <<>>, pages |-> <<>>]
    /\ failure = NoFailure
    /\ readers = 0
    /\ writer = FALSE
    /\ taxRead = FALSE
    /\ renderRead = FALSE
    /\ sectionRead = FALSE
    /\ contentPages = <<>>

\* main() not started
RunIdle ==
    /\ pc = "idle"
    /\ config = <<>>
    /\ walked = {}
    /\ pages = <<>>
    /\ copied = {}
    /\ written = {}
    /\ taxIdx = 1
    /\ collected = FALSE
    /\ terms = {}
    /\ sorted = <<>>
    /\ pending = {}
    /\ lastRender = [page |-> <<>>, pages |-> <<>>]
    /\ failure = NoFailure
    /\ readers = 0
    /\ writer = FALSE
    /\ taxRead = FALSE
    /\ renderRead = FALSE
    /\ sectionRead = FALSE
    /\ contentPages = <<>>

\* fs::read_to_string and frontmatter::parse (lines 225-227) of each text a
\* file of the content tree may hold
ParsedText == [contents \in FileTexts |-> FrontmatterParse(contents)]

\* lines 261-279 for the body of each text
RenderedText == [contents \in FileTexts |-> RenderBody(ParsedText[contents].body)]

\* whether rendering the body of each text calls get_section
CallsText == [contents \in FileTexts |-> UsesSectionShortcode(ParsedText[contents].body)]

\* the front matters toml::from_str may yield for a text
FrontMattersOf(contents) ==
    IF ParsedText[contents].kind = "ok" THEN FrontMatters
    ELSE {[template |-> None, date |-> None, taxonomies |-> None]}

\* the effect of one turn of the loop on the run: the file is copied, skipped
\* or inserted as a page, or the `?` / a panic ends main()
WalkStep(path, step) ==
    /\ walked' = walked \cup {path}
    /\ copied' = IF step.kind = "copy" THEN copied \cup {path} ELSE copied
    /\ pages' = IF step.kind = "page" THEN Insert(pages, step.name, step.page)
                ELSE pages
    /\ sectionRead' = (sectionRead \/ step.reads)
    /\ pc' = IF step.kind = "err" THEN "failed"
             ELSE IF step.kind = "panic" THEN "panicked"
             ELSE pc
    /\ failure' = IF step.kind \in {"err", "panic"}
                  THEN [phase |-> "walk", at |-> path]
                  ELSE failure

\* process_templated_files: one turn of the loop over WalkDir's entries
ProcessFile ==
    /\ pc = "walk"
    /\ Cardinality(walked) < MaxFiles
    /\ \E contents \in FileTexts, path \in FileNames \ walked :
          \E frontmatter \in FrontMattersOf(contents) :
              WalkStep(path, CompileFile(path, ParsedText[contents], frontmatter,
                                         CallsText[contents], RenderedText[contents],
                                         pc))
    /\ UNCHANGED pureVars
    /\ UNCHANGED <<config, written, taxIdx, collected, terms, sorted, pending,
                   lastRender, readers, writer, taxRead, renderRead, contentPages>>

\* process_templated_files returns the Site: main() goes on to line 439 and
\* calls process_taxonomies
FinishWalk ==
    /\ pc = "walk"
    /\ pc' = "taxonomies"
    /\ contentPages' = pages
    /\ taxIdx' = 1
    /\ collected' = FALSE
    /\ UNCHANGED pureVars
    /\ UNCHANGED <<config, walked, pages, copied, written, terms, sorted, pending,
                   lastRender, failure, readers, writer, taxRead, renderRead,
                   sectionRead>>

\* process_taxonomies: the block of lines 363-371 for the current taxonomy (the
\* read guard is taken and dropped inside the block); with no taxonomy left
\* the function returns and main() goes on to render_pages_for_site
CollectTerms ==
    /\ pc = "taxonomies"
    /\ ~collected
    /\ IF taxIdx > Len(config)
       THEN /\ pc' = "render"
            /\ UNCHANGED <<terms, collected, taxRead, failure, readers>>
       ELSE IF ~TryRead(readers, writer)
       THEN /\ pc' = "panicked"
            /\ failure' = [phase |-> "taxonomies", at |-> config[taxIdx]]
            /\ UNCHANGED <<terms, collected, taxRead, readers>>
       ELSE /\ terms' = TermsOf(pages, config[taxIdx])
            /\ collected' = TRUE
            /\ taxRead' = TRUE
            /\ readers' = GuardAfterBlock(readers + 1)
            /\ UNCHANGED <<pc, failure>>
    /\ UNCHANGED pureVars
    /\ UNCHANGED <<config, walked, pages, copied, written, taxIdx, sorted, pending,
                   lastRender, writer, renderRead, sectionRead, contentPages>>

\* process_taxonomies: one turn of `for term in terms` (the HashSet yields the
\* terms in any order; the write guard is taken and dropped inside the turn)
InsertTermPage ==
    /\ pc = "taxonomies"
    /\ collected
    /\ terms # {}
    /\ \E term \in terms :
          IF ~TryWrite(readers, writer)
          THEN /\ pc' = "panicked"
               /\ failure' = [phase |-> "taxonomies", at |-> term]
               /\ UNCHANGED <<pages, terms>>
          ELSE /\ pages' = Insert(pages, TermPageName(config[taxIdx], term),
                                  TermPage(config[taxIdx], term))
               /\ terms' = terms \ {term}
               /\ UNCHANGED <<pc, failure>>
    /\ UNCHANGED pureVars
    /\ UNCHANGED <<config, walked, copied, written, taxIdx, collected, sorted, pending,
                   lastRender, readers, writer, taxRead, renderRead, sectionRead,
                   contentPages>>

\* process_taxonomies: `for term in terms` is over, the next taxonomy is taken
NextTaxonomy ==
    /\ pc = "taxonomies"
    /\ collected
    /\ terms = {}
    /\ taxIdx' = taxIdx + 1
    /\ collected' = FALSE
    /\ UNCHANGED pureVars
    /\ UNCHANGED <<pc, config, walked, pages, copied, written, terms, sorted, pending,
                   lastRender, failure, readers, writer, taxRead, renderRead,
                   sectionRead, contentPages>>

\* render_pages_for_site, lines 324-333: the read guard is taken and held, the
\* dated pages are collected in HashMap order, sorted and reversed
StartRender ==
    /\ pc = "render"
    /\ ~renderRead
    /\ IF ~TryRead(readers, writer)
       THEN /\ pc' = "panicked"
            /\ failure' = [phase |-> "render", at |-> <<>>]
            /\ UNCHANGED <<readers, renderRead, sorted, pending>>
       ELSE /\ readers' = readers + 1
            /\ renderRead' = TRUE
            /\ \E order \in Orders({k \in DOMAIN pages : pages[k].date.some}) :
                  sorted' = SortedPages(order, pages)
            /\ pending' = DOMAIN pages
            /\ UNCHANGED <<pc, failure>>
    /\ UNCHANGED pureVars
    /\ UNCHANGED <<config, walked, pages, copied, written, taxIdx, collected, terms,
                   lastRender, writer, taxRead, sectionRead, contentPages>>

\* render_pages_for_site: one turn of `for page in site.pages.values()`:
\* render_page with the page list, then write_to_output; a template that calls
\* get_section makes GetSection::call read the index (its try_read fails, as
\* an Err of the render, when a write guard is live)
RenderPage ==
    /\ pc = "render"
    /\ renderRead
    /\ \E name \in pending :
          LET page  == pages[name]
              calls == /\ page.template_name \in PageTemplates
                       /\ TemplateCallsGetSection(page.template_name)
              ok    == /\ TemplateRenders(page.template_name)
                       /\ calls => (GetSectionRegistered(pc) /\ TryRead(readers, writer))
          IN  /\ lastRender' = [page |-> name, pages |-> PageList(page, sorted, pages)]
              /\ sectionRead' = (sectionRead \/ (calls /\ ok))
              /\ written' = WrittenAfter(written, name, ok)
              /\ IF ok
                 THEN /\ pending' = pending \ {name}
                      /\ UNCHANGED <<pc, failure, readers>>
                 ELSE /\ pc' = "failed"
                      /\ failure' = [phase |-> "render", at |-> name]
                      /\ readers' = readers - 1
                      /\ UNCHANGED pending
    /\ UNCHANGED pureVars
    /\ UNCHANGED <<config, walked, pages, copied, taxIdx, collected, terms, sorted,
                   writer, taxRead, renderRead, contentPages>>

\* render_pages_for_site returns Ok(()): the read guard is dropped, main() ends
FinishRender ==
    /\ pc = "render"
    /\ renderRead
    /\ pending = {}
    /\ pc' = "done"
    /\ readers' = readers - 1
    /\ UNCHANGED pureVars
    /\ UNCHANGED <<config, walked, pages, copied, written, taxIdx, collected, terms,
                   sorted, pending, lastRender, failure, writer, taxRead, renderRead,
                   sectionRead, contentPages>>

Next ==
    \/ ProcessFile
    \/ FinishWalk
    \/ CollectTerms
    \/ InsertTermPage
    \/ NextTaxonomy
    \/ StartRender
    \/ RenderPage
    \/ FinishRender

Init == RunInit /\ PureInit

Spec == Init /\ [][Next]_vars

-----------------------------------------------------------------------------
(* The frontmatter extractor on every text of bounded length.              *)

MaxFmLen == 7

FmAlphabet == {"+", " ", "t", "!"}

\* the pure functions are studied with main() not started
PureSpecInit == PureInit /\ RunIdle

FmAppend ==
    /\ res.kind = "none"
    /\ ntok < MaxFmLen
    /\ \E c \in FmAlphabet : text' = Append(text, c)
    /\ ntok' = ntok + 1
    /\ UNCHANGED <<res, registered>>
    /\ UNCHANGED runVars

FmParse ==
    /\ res.kind = "none"
    /\ res' = FrontmatterParse(text)
    /\ UNCHANGED <<text, ntok, registered>>
    /\ UNCHANGED runVars

FmNext == FmAppend \/ FmParse

SpecFrontmatter == PureSpecInit /\ [][FmNext]_vars

-----------------------------------------------------------------------------
(* The content splicer on every body of a bounded number of tokens: the    *)
(* three shortcodes the templates know, loose markers and plain text.      *)

MaxBodyTokens == 5

BodyTokens ==
    { <<"{", "{", " ", "a", "(", ")", " ", "}", "}">>,
      <<"{", "{", "b", "(", "x", "=", "\"", "y", "y", "\"", ")", "}", "}">>,
      <<"{", "{", "e", "(", ")", "}", "}">>,
      <<"{", "{">>,
      <<"}", "}">>,
      <<"x", " ">> }

SpliceAppend ==
    /\ res.kind = "none"
    /\ ntok < MaxBodyTokens
    /\ \E t \in BodyTokens : text' = text \o t
    /\ ntok' = ntok + 1
    /\ UNCHANGED <<res, registered>>
    /\ UNCHANGED runVars

SpliceRender ==
    /\ res.kind = "none"
    /\ res' = render_content(text)
    /\ UNCHANGED <<text, ntok, registered>>
    /\ UNCHANGED runVars

SpliceNext == SpliceAppend \/ SpliceRender

SpecSplice == PureSpecInit /\ [][SpliceNext]_vars

-----------------------------------------------------------------------------
(* The summary cut on every body of a bounded number of tokens.            *)

MaxSummaryTokens == 6

SummaryTokens ==
    { CommentOpen, CommentClose, <<"M", "o", "r", "e">>, <<" ">>, <<"x">> }

SummaryAppend ==
    /\ res.kind = "none"
    /\ ntok < MaxSummaryTokens
    /\ \E t \in SummaryTokens : text' = text \o t
    /\ ntok' = ntok + 1
    /\ UNCHANGED <<res, registered>>
    /\ UNCHANGED runVars

SummaryRender ==
    /\ res.kind = "none"
    /\ res' = RenderBody(text)
    /\ UNCHANGED <<text, ntok, registered>>
    /\ UNCHANGED runVars

SummaryNext == SummaryAppend \/ SummaryRender

SpecSummary == PureSpecInit /\ [][SummaryNext]_vars

-----------------------------------------------------------------------------
(* The shortcode parser on spans built slot by slot: each slot offers the  *)
(* well-formed piece and malformed ones.                                   *)

ArgA == <<"a", "=", "\"", "x", "\"">>

ArgB == <<"b", " ", "=", " ", "\"", " ", "y", "\"", " ">>

SpanSlots ==
    << { <<"{", "{">>, <<"{", "{", " ">>, <<"{">> },
       { <<>>, <<"a">>, <<"a", "_", "1", " ">>, <<"-">> },
       { <<"(">>, <<"(", " ">>, <<>> },
       { <<>>, ArgA, ArgA \o <<",">> \o ArgB, ArgB \o <<",", " ">> \o ArgA,
         ArgA \o <<",">>, <<",">>, <<"a">>, <<"=", "\"", "x", "\"">>,
         <<"a", "=", "x">>, ArgA \o ArgB },
       { <<")">>, <<")", " ">>, <<>> },
       { <<"}", "}">>, <<"}">>, <<>> } >>

SpanAppend ==
    /\ res.kind = "none"
    /\ ntok < Len(SpanSlots)
    /\ \E t \in SpanSlots[ntok + 1] : text' = text \o t
    /\ ntok' = ntok + 1
    /\ UNCHANGED <<res, registered>>
    /\ UNCHANGED runVars

SpanParse ==
    /\ res.kind = "none"
    /\ res' = parse_shortcode(text)
    /\ UNCHANGED <<text, ntok, registered>>
    /\ UNCHANGED runVars

SpanNext == SpanAppend \/ SpanParse

SpecShortcode == PureSpecInit /\ [][SpanNext]_vars

-----------------------------------------------------------------------------
(* render_shortcode on a span, over every small set of registered template *)
(* names.                                                                  *)

MaxTemplates == 2

\* template names the templates directory may hold: the template of a under
\* shortcodes/, one that differs in case, one with no extension, one outside
\* the namespace, one in a sub-directory, one in a sub-directory whose name
\* holds a dot, and one the engine fails to render
LookupTemplates ==
    { ShortcodesPrefix \o <<"a">> \o DotHtml,
      ShortcodesPrefix \o <<"A">> \o DotHtml,
      ShortcodesPrefix \o <<"a">>,
      <<"a">> \o DotHtml,
      ShortcodesPrefix \o <<"u", "/", "a">> \o DotHtml,
      ShortcodesPrefix \o <<"x", ".", "y", "/", "a">>,
      ShortcodesPrefix \o <<"e">> \o DotHtml }

\* the spans: invocations of a, A, x and e, and a malformed one
LookupSpans ==
    { <<"{", "{", "a", "(", ")", "}", "}">>,
      <<"{", "{", "A", "(", ")", "}", "}">>,
      <<"{", "{", "x", "(", ")", "}", "}">>,
      <<"{", "{", "e", "(", ")", "}", "}">>,
      <<"{", "{", "a", "(", "}", "}">> }

LookupRegister ==
    /\ res.kind = "none"
    /\ text = <<>>
    /\ Cardinality(registered) < MaxTemplates
    /\ \E t \in LookupTemplates \ registered : registered' = registered \cup {t}
    /\ UNCHANGED <<text, ntok, res>>
    /\ UNCHANGED runVars

LookupSpan ==
    /\ res.kind = "none"
    /\ text = <<>>
    /\ \E span \in LookupSpans : text' = span
    /\ ntok' = 1
    /\ UNCHANGED <<res, registered>>
    /\ UNCHANGED runVars

\* render_shortcode(text, page, tera); tera.get_template_names() yields the
\* registered names in any order
LookupRender ==
    /\ res.kind = "none"
    /\ text # <<>>
    /\ \E first \in registered \cup {<<>>} :
          /\ first \in MatchingTemplates(registered, parse_shortcode(text).name)
             \/ (first = <<>> /\ MatchingTemplates(registered,
                                       parse_shortcode(text).name) = {})
          /\ res' = ShortcodeCall(parse_shortcode(text),
                                  MatchingTemplates(registered,
                                                    parse_shortcode(text).name),
                                  first)
    /\ UNCHANGED <<text, ntok, registered>>
    /\ UNCHANGED runVars

LookupNext == LookupRegister \/ LookupSpan \/ LookupRender

SpecLookup == PureSpecInit /\ [][LookupNext]_vars

-----------------------------------------------------------------------------
(* output_path and make_permalink on every source path of a bounded number *)
(* of pieces, for templates with and without the html extension.           *)

MaxPathTokens == 4

PathTokens ==
    { <<"a">>, Index, <<"/">>, <<".", "m", "d">>, <<".", "b">>, <<" ">> }

\* template names: two with the html extension, one with another extension,
\* one with none
PathTemplates ==
    { PageHtml, Tags \o SingleHtml, <<"f", ".", "x", "m", "l">>, <<"r", "a", "w">> }

\* config.base_url, with and without a trailing "/"
BaseUrls ==
    { <<"h", ":", "/", "/", "s", "/">>, <<"h", ":", "/", "/", "s", "/", "b">> }

\* the content-relative path of a file: components separated by one "/", none
\* empty and none beginning or ending with a space
IsFilePath(path) ==
    /\ path # <<>>
    /\ \A i \in 1..Len(path) :
          path[i] \in {"/", " "} =>
              /\ i > 1 /\ i < Len(path)
              /\ path[i] = "/" => (path[i - 1] # "/" /\ path[i + 1] # "/")
              /\ path[i] = " " => (path[i - 1] # "/" /\ path[i + 1] # "/")

PathAppend ==
    /\ res.kind = "none"
    /\ ntok < MaxPathTokens
    /\ \E t \in PathTokens : text' = text \o t
    /\ ntok' = ntok + 1
    /\ UNCHANGED <<res, registered>>
    /\ UNCHANGED runVars

\* lines 235-242 of process_templated_files: output_path of the file's path
\* and the resolved template name, then make_permalink of it
PathResolve ==
    /\ res.kind = "none"
    /\ IsFilePath(text)
    /\ \E template_name \in PathTemplates, base_url \in BaseUrls :
          res' = [kind |-> "ok", template |-> template_name, base |-> base_url,
                  path |-> output_path(text, template_name),
                  permalink |-> make_permalink(base_url,
                                               output_path(text, template_name))]
    /\ UNCHANGED <<text, ntok, registered>>
    /\ UNCHANGED runVars

PathNext == PathAppend \/ PathResolve

SpecPath == PureSpecInit /\ [][PathNext]_vars

-----------------------------------------------------------------------------
(* Properties of the pure functions                                        *)

Applied == res.kind # "none"

\* every "{{" of the body is followed by a "}}"
AllMarkersClosed(body) ==
    \A i \in 0..Len(body) :
        StartsWithAt(body, <<"{", "{">>, i)
            => \E j \in (i + 2)..Len(body) : StartsWithAt(body, <<"}", "}">>, j)

RECURSIVE ForwardRenders(_, _)
\* the per-range renders of the original body, first range first
ForwardRenders(body, ranges) ==
    IF ranges = <<>> THEN <<>>
    ELSE <<RenderRange(Head(ranges).tag, Slice(body, Head(ranges).start, Head(ranges).end))>>
             \o ForwardRenders(body, Tail(ranges))

\* the ranges tile 0..n: the first starts at 0, each starts where the one
\* before it ends, none is empty, the last ends at n
Tiles(ranges, n) ==
    /\ (ranges = <<>>) <=> (n = 0)
    /\ \A i \in 1..Len(ranges) :
        /\ ranges[i].start < ranges[i].end
        /\ ranges[i].start = (IF i = 1 THEN 0 ELSE ranges[i - 1].end)
    /\ ranges # <<>> => ranges[Len(ranges)].end = n

\* C1: for a body whose "{{" markers are all closed, the recorded ranges tile
\* the body, render_content never panics, it succeeds exactly when every
\* per-range render succeeds, and then its result is the concatenation of the
\* per-range renders in input order.
C1_SpliceIsForwardConcat ==
    (Applied /\ AllMarkersClosed(text)) =>
        LET scan    == ScanRanges(text, 0, <<>>)
            renders == ForwardRenders(text, scan.ranges)
        IN  /\ scan.ok
            /\ Tiles(scan.ranges, Len(text))
            /\ res.kind # "panic"
            /\ (res.kind = "ok") <=> (\A i \in 1..Len(renders) : renders[i].kind = "ok")
            /\ res.kind = "ok" =>
                   res.val = Concat([i \in 1..Len(renders) |-> renders[i].val])

\* a body with markdown before, between and after two shortcodes, one whose
\* render is shorter than its span and one whose render is longer, spliced
C1_Witness ==
    /\ Applied
    /\ res.kind = "ok"
    /\ LET ranges == ScanRanges(text, 0, <<>>).ranges
           grows(i)   == Len(RenderRange(ranges[i].tag,
                                 Slice(text, ranges[i].start, ranges[i].end)).val)
                             > ranges[i].end - ranges[i].start
           shrinks(i) == Len(RenderRange(ranges[i].tag,
                                 Slice(text, ranges[i].start, ranges[i].end)).val)
                             < ranges[i].end - ranges[i].start
       IN  /\ Len(ranges) = 5
           /\ ranges[1].tag = "Markdown" /\ ranges[2].tag = "ShortCode"
           /\ ranges[3].tag = "Markdown" /\ ranges[4].tag = "ShortCode"
           /\ ranges[5].tag = "Markdown"
           /\ \E i \in {2, 4} : grows(i)
           /\ \E i \in {2, 4} : shrinks(i)

\* C5: a text that does not begin with "+++" (no "+++" at all, or the first one
\* past offset 0) makes frontmatter::parse return the error value
\* "frontmatter not at beginning of file" (MalformedInput) to its caller.
C5_MalformedInputReturned ==
    (Applied /\ Find(text, marker) # 0) =>
        (res.kind = "err" /\ res.msg = "frontmatter not at beginning of file")

\* C6: a text that begins with "+++" and holds no further "+++" makes
\* frontmatter::parse return an error value (UnterminatedBlock) to its caller.
C6_UnterminatedBlockReturned ==
    (Applied /\ Find(text, marker) = 0 /\ Find(SliceFrom(text, 3), marker) = NoIndex) =>
        res.kind = "err"

RECURSIVE MoreCommentOffset(_, _)
\* the offset of the first HTML comment of the body (comments read one after
\* the other from offset from) whose trimmed content is "more" in any case;
\* NoIndex when there is none
MoreCommentOffset(body, from) ==
    LET start == Find(SliceFrom(body, from), CommentOpen)
    IN  IF start = NoIndex THEN NoIndex
        ELSE LET open == from + start + 4
                 end  == Find(SliceFrom(body, open), CommentClose)
             IN  IF end = NoIndex THEN NoIndex
                 ELSE IF EqIgnoreAsciiCase(Trim(Slice(body, open, open + end)),
                                           <<"m", "o", "r", "e">>)
                 THEN from + start
                 ELSE MoreCommentOffset(body, open + end + 3)

\* C8: a page has a summary exactly when its body holds a comment whose trimmed
\* content is "more" in any case, wherever the comment sits; the summary is
\* render_content of the text before that comment and content is
\* render_content of the whole body.
C8_SummaryIffMoreComment ==
    (Applied /\ res.kind = "ok") =>
        LET cut == MoreCommentOffset(text, 0)
        IN  /\ res.hasSummary <=> (cut # NoIndex)
            /\ res.hasSummary => res.summary = render_content(Slice(text, 0, cut)).val
            /\ res.content = render_content(text).val

\* The grammar of a shortcode span, as sets of offsets: each operator maps the
\* offsets a match may start at to the offsets it may end at.
GWs(s, P) ==
    {q \in 0..Len(s) : \E p \in P : p <= q /\ \A k \in (p + 1)..q : s[k] \in Whitespace}

GLit(s, P, l) == {p + Len(l) : p \in {p \in P : StartsWithAt(s, l, p)}}

\* a token and the whitespace permitted after it
GTok(s, P, l) == GWs(s, GLit(s, P, l))

\* identifier: one or more alphanumeric/underscore characters
GIdent(s, P) ==
    {q \in 0..Len(s) : \E p \in P : p < q /\ \A k \in (p + 1)..q : IsIdentChar(s[k])}

GString(s, P) ==
    {q \in 0..Len(s) : \E p \in P : p <= q /\ \A k \in (p + 1)..q : s[k] # "\""}

\* identifier = "string"
GArg(s, P) ==
    GTok(s, GString(s, GLit(s, GTok(s, GWs(s, GIdent(s, P)), <<"=">>), <<"\"">>)), <<"\"">>)

RECURSIVE GMoreArgs(_, _, _)
\* (, identifier = "string")*, at most n times
GMoreArgs(s, P, n) ==
    IF n = 0 \/ P = {} THEN P
    ELSE P \cup GMoreArgs(s, GArg(s, GTok(s, P, <<",">>)), n - 1)

\* (identifier = "string" (, identifier = "string")*)?
GArgs(s, P) == P \cup GMoreArgs(s, GArg(s, P), Len(s))

\* {{ ws* identifier ws* ( args? ) ws* }} over the whole span
MatchesGrammar(s) ==
    Len(s) \in
        GLit(s, GTok(s, GArgs(s, GTok(s, GWs(s, GIdent(s, GTok(s, {0}, <<"{", "{">>))),
                                      <<"(">>)),
                         <<")">>),
             <<"}", "}">>)

\* C10: parse_shortcode succeeds on a span exactly when the span matches the
\* grammar with identifiers of one or more characters, and it fails on every
\* other span; on success the name and every argument name are identifiers.
C10_ParseIffGrammar ==
    Applied =>
        /\ (res.kind = "ok") <=> MatchesGrammar(text)
        /\ res.kind = "ok" =>
               /\ res.name # <<>>
               /\ \A i \in 1..Len(res.arguments) : res.arguments[i].name # <<>>

-----------------------------------------------------------------------------
(* Properties of a run of main()                                           *)

\* process_taxonomies has returned
TaxonomiesDone == pc \in {"render", "done"} \/ failure.phase = "render"

\* the pages of the index that carry a taxonomy identity
TermPages == {k \in DOMAIN pages : pages[k].taxonomy.some}

\* the (taxonomy, term) pairs of the content pages under the configured
\* taxonomies
ConfiguredPairs ==
    UNION { {<<config[i], term>> : term \in TermsOf(contentPages, config[i])} :
              i \in 1..Len(config) }

\* C2: once process_taxonomies has returned, the term pages of the index are
\* the configured (taxonomy, term) pairs of the content pages, one page for each
\* distinct pair, none missing and none extra
C2_TermPagesAreDistinctPairs ==
    TaxonomiesDone =>
        /\ {pages[k].taxonomy.val : k \in TermPages} = ConfiguredPairs
        /\ Cardinality(TermPages) = Cardinality(ConfiguredPairs)

\* C3 as stated: a run that ended with an error has written no rendered page
C3_NoOutputOnError == pc = "failed" => written = {}

\* C3: no page is written before the render pass; in the render pass the pages
\* written are the pages visited whose own render succeeded, so a run that
\* ends with a render error has written the pages rendered before the failing
\* one and neither the failing page nor a page not yet visited, and a run that
\* ends without error has written every page
C3_OnlyRenderedPagesWritten ==
    /\ ~renderRead => written = {}
    /\ failure.phase \in {"walk", "taxonomies"} => written = {}
    /\ renderRead => written = DOMAIN pages \ pending
    /\ \A k \in written : TemplateRenders(pages[k].template_name)
    /\ (pc = "failed" /\ failure.phase = "render") => failure.at \notin written
    /\ pc = "done" => written = DOMAIN pages

\* a render error after another page was rendered and written
C3_Witness ==
    /\ pc = "failed"
    /\ failure.phase = "render"
    /\ written # {}

\* the entries of the index a step inserts or replaces
Inserted == {k \in DOMAIN pages' : k \notin DOMAIN pages \/ pages'[k] # pages[k]}

\* C4: no step inserts a content page once the taxonomy builder has read the
\* index, and no step inserts, removes or replaces an entry of the index once
\* the render pass or a get_section call has read it
C4_IndexAccessesPhaseOrdered ==
    [][ /\ (\E k \in Inserted : ~pages'[k].taxonomy.some)
            => ~(taxRead \/ renderRead \/ sectionRead)
        /\ pages' # pages => ~(renderRead \/ sectionRead) ]_vars

\* a finished run in which content pages and term pages were inserted and the
\* taxonomy builder, the render pass and get_section all read the index
C4_Witness ==
    /\ pc = "done"
    /\ taxRead /\ renderRead /\ sectionRead
    /\ TermPages # {}
    /\ DOMAIN pages \ TermPages # {}

\* a file name that begins with "_"
IsPartial(path) == FileName(path).some /\ Head(FileName(path).val) = "_"

\* C7: a file whose name begins with "_" never makes the run fail
C7_PartialNeverFailsRun == failure.phase = "walk" => ~IsPartial(failure.at)

RECURSIVE Decimal(_)
\* the number a string of digits denotes
Decimal(s) ==
    IF s = <<>> THEN 0
    ELSE 10 * Decimal(SubSeq(s, 1, Len(s) - 1))
         + (CHOOSE n \in 0..9 : Digit(n) = s[Len(s)])

\* the day a date string yyyy-mm-dd denotes, as a number that grows with time
DayOf(s) ==
    10000 * Decimal(Slice(s, 0, 4)) + 100 * Decimal(Slice(s, 5, 7))
    + Decimal(Slice(s, 8, 10))

\* the pages the list of a page has to hold: the dated pages, for a term page
\* those that list its term under its taxonomy
ListedFor(page) ==
    {k \in DOMAIN pages :
        /\ pages[k].date.some
        /\ page.taxonomy.some =>
              /\ page.taxonomy.val[1] \in DOMAIN pages[k].taxonomies
              /\ page.taxonomy.val[2] \in Range(pages[k].taxonomies[page.taxonomy.val[1]])}

\* C9: the page list given to the template of a page holds each page it has to
\* hold once and no other, by date descending
C9_PageListFilteredAndDescending ==
    lastRender.page # <<>> =>
        /\ Range(lastRender.pages) = ListedFor(pages[lastRender.page])
        /\ Len(lastRender.pages) = Cardinality(ListedFor(pages[lastRender.page]))
        /\ \A i, j \in 1..Len(lastRender.pages) :
              i < j => DayOf(pages[lastRender.pages[i]].date.val)
                         >= DayOf(pages[lastRender.pages[j]].date.val)

\* a term page was given two pages of different dates while the index also
\* holds undated pages
C9_Witness ==
    /\ lastRender.page # <<>>
    /\ pages[lastRender.page].taxonomy.some
    /\ Len(lastRender.pages) = 2
    /\ pages[lastRender.pages[1]].date.val # pages[lastRender.pages[2]].date.val
    /\ \E k \in DOMAIN pages : ~pages[k].date.some

-----------------------------------------------------------------------------
(* Properties of the shortcode lookup                                      *)

\* a template name lies under shortcodes/ and what follows the prefix, with
\* the extension of its file name stripped, is the name
NamesShortcode(template, name) ==
    /\ StartsWithAt(template, ShortcodesPrefix, 0)
    /\ SliceFrom(template, Len(ShortcodesPrefix)) # <<>>
    /\ WithExtension(SliceFrom(template, Len(ShortcodesPrefix)), <<>>) = name

\* C11: on a well-formed invocation render_shortcode calls the template engine
\* exactly when a registered name under shortcodes/ has, extension stripped,
\* the name of the invocation; with no such template it fails as an unknown
\* shortcode and the engine is not called, and the template rendered is never
\* one outside shortcodes/
C11_DelegatesIffTemplateNamed ==
    (Applied /\ res.kind # "syntax") =>
        /\ res.engine <=> \E t \in registered : NamesShortcode(t, res.name)
        /\ ~(\E t \in registered : NamesShortcode(t, res.name))
              => res.kind = "unknown"
        /\ res.engine => StartsWithAt(res.template, ShortcodesPrefix, 0)

-----------------------------------------------------------------------------
(* Properties of output_path and make_permalink                            *)

\* a path with the extension of its last component dropped: the component cut
\* at its last '.', unless that '.' is its first character
ExtensionDropped(path) ==
    IF ExtensionDot(SliceFrom(path, LastComponentStart(path))) = NoIndex THEN path
    ELSE Slice(path, 0, LastComponentStart(path)
                        + ExtensionDot(SliceFrom(path, LastComponentStart(path))))

\* a path with a trailing index segment removed
IndexCollapsed(path) ==
    IF path = Index THEN <<>>
    ELSE IF Len(path) > Len(Index)
            /\ SliceFrom(path, Len(path) - Len(Index) - 1) = <<"/">> \o Index
    THEN Slice(path, 0, Len(path) - Len(Index) - 1)
    ELSE path

\* the output path the rule gives: for a template with the html extension the
\* path with its extension dropped, a trailing index segment collapsed and
\* index.html appended; else the path with its extension dropped followed by
\* the extension of the template
RuleOutputPath(path, template_name) ==
    IF ~Extension(template_name).some THEN ExtensionDropped(path)
    ELSE IF Extension(template_name).val = Html
    THEN (IF IndexCollapsed(ExtensionDropped(path)) = <<>> THEN <<>>
          ELSE IndexCollapsed(ExtensionDropped(path)) \o <<"/">>) \o IndexHtml
    ELSE ExtensionDropped(path) \o <<".">> \o Extension(template_name).val

\* C12: output_path yields the path of the rule, and the permalink is the base
\* URL joined with the output path less a trailing index.html
C12_OutputPathAndPermalinkRule ==
    Applied =>
        /\ res.path = RuleOutputPath(text, res.template)
        /\ \/ \E n \in 0..Len(res.path) :
                 /\ res.path = Slice(res.path, 0, n) \o IndexHtml
                 /\ res.permalink = UrlJoin(res.base, Slice(res.path, 0, n))
           \/ /\ ~(\E n \in 0..Len(res.path) :
                      res.path = Slice(res.path, 0, n) \o IndexHtml)
              /\ res.permalink = UrlJoin(res.base, res.path)

-----------------------------------------------------------------------------
(* Properties of the lock on the index                                     *)

\* C13: wherever the run is about to call try_read or try_write on the index
\* no conflicting guard is live (no write guard at a try_read, including the
\* one of get_section under the read guard of the render pass; no guard at all
\* at a try_write), and no run panics on such a call
C13_NoLockAcquisitionFails ==
    /\ (pc = "taxonomies" /\ ~collected /\ taxIdx <= Len(config)) => ~writer
    /\ (pc = "taxonomies" /\ collected /\ terms # {}) => (readers = 0 /\ ~writer)
    /\ pc = "render" => ~writer
    /\ (pc = "render" /\ renderRead) => readers = 1
    /\ failure.phase # "taxonomies"
    /\ pc = "panicked" => failure.phase = "walk"

\* the render pass holds its read guard, a term page was inserted under a
\* write guard and get_section has read the index under the render pass
C13_Witness ==
    /\ pc = "render"
    /\ renderRead
    /\ readers = 1
    /\ sectionRead
    /\ TermPages # {}
    /\ written # {}

=============================================================================
